---- MODULE Spec2Model ----
(***************************************************************************)
(* Model of the gRPC AuthService of backend-rust/src/main.rs               *)
(* (MyAuthService: sign_up, login, forgot_password, reset_password,        *)
(* validate_token).  Each handler is an async fn; it is cut into one       *)
(* atomic action per store call (.await), the synchronous code that runs   *)
(* between two awaits being part of the action that precedes it.           *)
(*                                                                         *)
(* The collaborators the handlers call (UserRepository, SessionRepository, *)
(* TokenManager, password, the request DTOs and AppError -> Status) live   *)
(* in modules of the crate whose files are not part of src/; they are      *)
(* modelled from the specification (sections 4.1 - 4.3, 6 and 7).          *)
(*                                                                         *)
(* Time is counted in units of 30 minutes.                                 *)
(***************************************************************************)
EXTENDS Integers, Sequences, FiniteSets, TLC

\* ------------------------------------------------------------------ bounds
\* The clock runs from 0 to MaxClock.
MaxClock == 2
\* Number of reset tokens Uuid::new_v4 hands out before ForgotPassword is
\* no longer started.
MaxResetTokens == 1

\* Concurrent callers (each runs one request at a time).
Clients == {"c1", "c2"}

\* ------------------------------------------------------------ input values
\* An account that is followed through all operations, a second account
\* that only signs up, and an address that never signs up.
PrimaryEmail == "a@x"
OtherEmail == "b@x"
UnregisteredEmail == "z@x"
PlausibleEmails == {PrimaryEmail, OtherEmail, UnregisteredEmail}
Passwords == {"pw1", "pw2"}
Salts == {"s1"}

\* ------------------------------------------------------- program constants
ResetTtlUnbounded == MaxClock + 1
\* Duration::minutes(30), in clock units.
ResetTtl == 1
\* Settings: lifetime of an access token (minutes) and of a refresh token
\* (days), scaled to clock units; RefreshTtl > AccessTtl.
AccessTtl == 1
RefreshTtl == 2
\* settings.jwt_secret
JwtSecret == "secret"

\* ---------------------------------------------------------------- Option<T>
None == << >>
Some(x) == << x >>
IsSome(o) == o # << >>
Unwrap(o) == o[1]

\* ------------------------------------------------------------------- Uuid
\* user.id.to_string() and Uuid::parse_str: an id n is printed as
\* <<"uuid", n>>; any other string does not parse.
UuidToString(id) == << "uuid", id >>
UuidParse(s) == IF Len(s) = 2 /\ s[1] = "uuid" THEN Some(s[2]) ELSE None

\* ------------------------------------------------------- Password Hasher
\* hash_password: a salted one-way hash; the salt is embedded in the output.
HashPassword(plain, salt) == [alg |-> "salted", salt |-> salt, digest |-> << salt, plain >>]
\* verify_password: recompute the digest with the embedded salt and compare.
VerifyPassword(hash, plain) == hash.digest = << hash.salt, plain >>

\* ------------------------------------------------------------ Token Codec
\* The signature covers subject, issued-at and expiry under the key.
Mac(key, claims) == [key |-> key, sub |-> claims.sub, iat |-> claims.iat, exp |-> claims.exp]
\* TokenManager::generate_*: (token_string, expiry_timestamp).
IssueToken(secret, user_id, ttl, t) ==
    LET claims == [sub |-> UuidToString(user_id), iat |-> t, exp |-> t + ttl]
    IN  [token |-> << claims, Mac(secret, claims) >>, exp |-> t + ttl]
GenerateAccessToken(secret, user_id, t) == IssueToken(secret, user_id, AccessTtl, t)
GenerateRefreshToken(secret, user_id, t) == IssueToken(secret, user_id, RefreshTtl, t)
\* TokenManager::validate_token: claims, or the reason of the failure.
VerifyToken(secret, token, t) ==
    IF Len(token) # 2 THEN [ok |-> FALSE, err |-> "malformed", claims |-> None]
    ELSE IF token[2] # Mac(secret, token[1])
         THEN [ok |-> FALSE, err |-> "signature", claims |-> None]
    ELSE IF t > token[1].exp
         THEN [ok |-> FALSE, err |-> "expired", claims |-> None]
    ELSE [ok |-> TRUE, err |-> "", claims |-> Some(token[1])]

\* The empty string, and a string that is no token.
EmptyToken == << >>
GarbageToken == << "garbage" >>

\* --------------------------------------------------------------- User Store
\* UserRepository over the users table: a row's id is its position; email is
\* unique; a new row is active and has never logged in.
FindByEmail(us, email) ==
    IF \E i \in 1..Len(us) : us[i].email = email
    THEN Some(us[CHOOSE i \in 1..Len(us) : us[i].email = email])
    ELSE None
FindById(us, id) == IF id \in 1..Len(us) THEN Some(us[id]) ELSE None
NewUser(id, email, hash, first, last) ==
    [id |-> id, email |-> email, password_hash |-> hash, first_name |-> first,
     last_name |-> last, is_active |-> TRUE, last_login |-> None]
\* create: the unique constraint on email decides atomically.
Create(us, email, hash, first, last) ==
    IF IsSome(FindByEmail(us, email))
    THEN [ok |-> FALSE, err |-> "unique_violation", users |-> us, user |-> None]
    ELSE LET u == NewUser(Len(us) + 1, email, hash, first, last)
         IN  [ok |-> TRUE, err |-> "", users |-> Append(us, u), user |-> Some(u)]
UpdatePassword(us, id, hash) ==
    IF id \in 1..Len(us) THEN [us EXCEPT ![id].password_hash = hash] ELSE us
UpdateLastLoginRow(us, id, t) ==
    IF id \in 1..Len(us) THEN [us EXCEPT ![id].last_login = Some(t)] ELSE us

\* ------------------------------------------------------------ Session Store
\* SessionRepository over the cache: key -> (value, expiry); the cache drops
\* a key when its time to live has run out.
RefreshKey(user_id) == << "refresh", UuidToString(user_id) >>
ResetKey(token) == << "reset", token >>
Put(s, key, value, ttl, t) ==
    [k \in DOMAIN s \cup {key} |->
        IF k = key THEN [value |-> value, expires_at |-> t + ttl] ELSE s[k]]
Get(s, key, t) ==
    IF key \in DOMAIN s /\ t < s[key].expires_at THEN Some(s[key].value) ELSE None
Live(s, t) == [k \in {x \in DOMAIN s : t < s[x].expires_at} |-> s[k]]

\* ------------------------------------------------------ AppError -> Status
ValidationError(msg) == [variant |-> "ValidationError", detail |-> msg]
DbError(e) == [variant |-> "DbError", detail |-> e]
RedisError(e) == [variant |-> "RedisError", detail |-> e]
JwtErrorAsInternal(e) == [variant |-> "Internal", detail |-> e]
JwtError(e) == [variant |-> "JwtError", detail |-> e]
PasswordError(e) == [variant |-> "PasswordError", detail |-> e]
Unauthorized(msg) == [variant |-> "Unauthorized", detail |-> msg]
BadRequest(msg) == [variant |-> "BadRequest", detail |-> msg]
Internal(msg) == [variant |-> "Internal", detail |-> msg]
\* Section 7: domain errors keep their message; store and internal errors are
\* returned as a generic failure.
ToStatus(e) ==
    CASE e.variant = "ValidationError" -> [kind |-> "ValidationError", message |-> e.detail]
      [] e.variant = "Unauthorized" -> [kind |-> "Unauthorized", message |-> e.detail]
      [] e.variant = "BadRequest" -> [kind |-> "BadRequest", message |-> e.detail]
      [] e.variant = "JwtError" -> [kind |-> "Unauthorized", message |-> "Invalid token"]
      [] e.variant = "DbError" /\ e.detail = "unique_violation" ->
            [kind |-> "AlreadyExists", message |-> "Already exists"]
      [] e.variant \in {"DbError", "RedisError"} ->
            [kind |-> "StoreError", message |-> "Internal server error"]
      [] OTHER -> [kind |-> "Internal", message |-> "Internal server error"]

\* Result<Response<T>, Status>
Ok(body) == [kind |-> "Ok", message |-> "", body |-> Some(body)]
Err(e) == [kind |-> ToStatus(e).kind, message |-> ToStatus(e).message, body |-> None]

\* auth::User: the public projection of a row.
Projection(u) ==
    [id |-> UuidToString(u.id), email |-> u.email,
     first_name |-> u.first_name, last_name |-> u.last_name]

\* ------------------------------------------------------------ request DTOs
\* TryFrom<Request> for the DTOs: every field non-empty, the email plausible.
PlausibleEmail(e) == e \in PlausibleEmails
SignUpRequest(e, p, f, l) ==
    [op |-> "SignUp", email |-> e, password |-> p, first_name |-> f, last_name |-> l]
LoginRequest(e, p) == [op |-> "Login", email |-> e, password |-> p]
ForgotPasswordRequest(e) == [op |-> "ForgotPassword", email |-> e]
ResetPasswordRequest(t, p) == [op |-> "ResetPassword", token |-> t, new_password |-> p]
ValidateTokenRequest(t) == [op |-> "ValidateToken", access_token |-> t]
ValidRequest(req) ==
    CASE req.op = "SignUp" ->
            /\ PlausibleEmail(req.email) /\ req.password # ""
            /\ req.first_name # "" /\ req.last_name # ""
      [] req.op = "Login" -> PlausibleEmail(req.email) /\ req.password # ""
      [] req.op = "ForgotPassword" -> PlausibleEmail(req.email)
      [] req.op = "ResetPassword" -> req.token # 0 /\ req.new_password # ""
      [] req.op = "ValidateToken" -> req.access_token # EmptyToken
InvalidRequest == ValidationError("invalid request")

\* ------------------------------------------------------------------- state
VARIABLES
    users,      \* the users table (User Store)
    session,    \* the cache (Session Store)
    now,        \* the clock
    nextReset,  \* Uuid::new_v4: the next reset token
    clients,    \* per caller: position in its handler, request, locals
    wallet,     \* what the last successful Login returned to its caller
    issued,     \* history: the reset tokens stored so far, with time and user
    out,        \* the exchange completed by the last step, if any
    fault       \* the failure the environment injected into the last step

vars == << users, session, now, nextReset, clients, wallet, issued, out, fault >>

EmptySession == [k \in {} |-> None]
Idle == [pc |-> "idle", req |-> None, loc |-> None]

Init ==
    /\ users = << >>
    /\ session = EmptySession
    /\ now = 0
    /\ nextReset = 1
    /\ clients = [c \in Clients |-> Idle]
    /\ wallet = None
    /\ issued = {}
    /\ out = None
    /\ fault = "none"

\* The handler of c returns resp: the exchange is complete.
Reply(c, req, resp, flt) ==
    /\ clients' = [clients EXCEPT ![c] = Idle]
    /\ out' = Some([client |-> c, req |-> req, resp |-> resp])
    /\ fault' = flt
\* The handler of c is suspended at its next store call.
Await(c, pc, req, loc) ==
    /\ clients' = [clients EXCEPT ![c] = [pc |-> pc, req |-> req, loc |-> loc]]
    /\ out' = None
    /\ fault' = "none"

\* A handler, the clock and the environment take a step once the reply of
\* the step before has been sent (out = None).

\* ----------------------------------------------------------------- sign_up
SignUpHashOfEmail(req, salt) == HashPassword(req.email, salt)
\* Line 58.
SignUpHash(req, salt) == HashPassword(req.password, salt)
SignUpInsertUnchecked(us, req, hashed_password) ==
    LET u == NewUser(Len(us) + 1, req.email, hashed_password, req.first_name, req.last_name)
    IN  [ok |-> TRUE, err |-> "", users |-> Append(us, u), user |-> Some(u)]
\* Lines 60-69.
SignUpInsert(us, req, hashed_password) ==
    Create(us, req.email, hashed_password, req.first_name, req.last_name)
\* Lines 71-87.
SignUpReply(user) ==
    Ok([success |-> TRUE, message |-> "User signed up successfully",
        user |-> Some(Projection(user))])

\* Lines 49-58: validate and hash; suspended at create.
SignUpStart(c, req, salt, flt) ==
    /\ out = None
    /\ clients[c].pc = "idle"
    /\ UNCHANGED << wallet, issued, users, session, now, nextReset >>
    /\ IF ~ValidRequest(req)
       THEN Reply(c, req, Err(InvalidRequest), "none")
       ELSE IF flt = "hash"
       THEN Reply(c, req, Err(PasswordError("hash")), "hash")
       ELSE Await(c, "signup_create", req, [hashed_password |-> SignUpHash(req, salt)])

\* Lines 60-87: create, reply.
SignUpCreate(c, flt) ==
    /\ out = None
    /\ clients[c].pc = "signup_create"
    /\ UNCHANGED << wallet, issued, session, now, nextReset >>
    /\ LET req == clients[c].req
           r == SignUpInsert(users, req, clients[c].loc.hashed_password)
       IN  IF flt = "db"
           THEN /\ Reply(c, req, Err(DbError("unreachable")), "db")
                /\ UNCHANGED users
           ELSE IF ~r.ok
           THEN /\ Reply(c, req, Err(DbError(r.err)), "none")
                /\ UNCHANGED users
           ELSE /\ users' = r.users
                /\ Reply(c, req, SignUpReply(Unwrap(r.user)), "none")

\* ------------------------------------------------------------------- login
\* Line 109.
UnknownEmail == Unauthorized("Invalid credentials")
\* Lines 112-113.
PasswordMatches(user, req) == VerifyPassword(user.password_hash, req.password)
WrongPasswordTold == Unauthorized("Wrong password")
\* Line 116.
WrongPassword == Unauthorized("Invalid credentials")
RefreshEntryTtlFull(refresh_exp, t) == refresh_exp
\* Line 135: the remaining lifetime of the refresh token.
RefreshEntryTtl(refresh_exp, t) == refresh_exp - t
\* Line 150.
ExpiresIn(access_exp) == access_exp
\* Lines 145-163.
LoginReply(l) ==
    Ok([access_token |-> l.access_token, refresh_token |-> l.refresh_token,
        expires_in |-> ExpiresIn(l.access_exp), user |-> Some(Projection(l.user))])

LoginFindStamping(c, req, flt) ==
    /\ out = None
    /\ clients[c].pc = "idle"
    /\ UNCHANGED << wallet, issued, session, now, nextReset >>
    /\ users' = IF ValidRequest(req) /\ flt # "db" /\ IsSome(FindByEmail(users, req.email))
                    /\ ~PasswordMatches(Unwrap(FindByEmail(users, req.email)), req)
                 THEN UpdateLastLoginRow(users, Unwrap(FindByEmail(users, req.email)).id, now)
                 ELSE users
    /\ IF ~ValidRequest(req)
       THEN Reply(c, req, Err(InvalidRequest), "none")
       ELSE IF flt = "db"
       THEN Reply(c, req, Err(DbError("unreachable")), "db")
       ELSE LET user == FindByEmail(users, req.email)
            IN  IF ~IsSome(user)
                THEN Reply(c, req, Err(UnknownEmail), "none")
                ELSE IF Unwrap(user).password_hash.alg # "salted"
                THEN Reply(c, req, Err(PasswordError("verify")), "none")
                ELSE IF ~PasswordMatches(Unwrap(user), req)
                THEN Reply(c, req, Err(WrongPassword), "none")
                ELSE IF flt = "jwt"
                THEN Reply(c, req, Err(JwtError("encode")), "jwt")
                ELSE LET access == GenerateAccessToken(JwtSecret, Unwrap(user).id, now)
                         refresh == GenerateRefreshToken(JwtSecret, Unwrap(user).id, now)
                     IN  Await(c, "login_store", req,
                               [user |-> Unwrap(user),
                                access_token |-> access.token,
                                access_exp |-> access.exp,
                                refresh_token |-> refresh.token,
                                refresh_exp |-> refresh.exp,
                                ttl |-> RefreshEntryTtl(refresh.exp, now)])
LoginFindLookupFirst(c, req, flt) ==
    /\ out = None
    /\ clients[c].pc = "idle"
    /\ UNCHANGED << wallet, issued, users, session, now, nextReset >>
    /\ IF flt = "db"
       THEN Reply(c, req, Err(DbError("unreachable")), "db")
       ELSE IF ~ValidRequest(req)
       THEN Reply(c, req, Err(InvalidRequest), "none")
       ELSE LET user == FindByEmail(users, req.email)
            IN  IF ~IsSome(user)
                THEN Reply(c, req, Err(UnknownEmail), "none")
                ELSE IF Unwrap(user).password_hash.alg # "salted"
                THEN Reply(c, req, Err(PasswordError("verify")), "none")
                ELSE IF ~PasswordMatches(Unwrap(user), req)
                THEN Reply(c, req, Err(WrongPassword), "none")
                ELSE IF flt = "jwt"
                THEN Reply(c, req, Err(JwtError("encode")), "jwt")
                ELSE LET access == GenerateAccessToken(JwtSecret, Unwrap(user).id, now)
                         refresh == GenerateRefreshToken(JwtSecret, Unwrap(user).id, now)
                     IN  Await(c, "login_store", req,
                               [user |-> Unwrap(user),
                                access_token |-> access.token,
                                access_exp |-> access.exp,
                                refresh_token |-> refresh.token,
                                refresh_exp |-> refresh.exp,
                                ttl |-> RefreshEntryTtl(refresh.exp, now)])
\* Lines 90-136: validate, find_by_email, verify the password, issue both
\* tokens and compute the refresh entry's time to live; suspended at
\* store_refresh_token.
LoginFind(c, req, flt) ==
    /\ out = None
    /\ clients[c].pc = "idle"
    /\ UNCHANGED << wallet, issued, users, session, now, nextReset >>
    /\ IF ~ValidRequest(req)
       THEN Reply(c, req, Err(InvalidRequest), "none")
       ELSE IF flt = "db"
       THEN Reply(c, req, Err(DbError("unreachable")), "db")
       ELSE LET user == FindByEmail(users, req.email)
            IN  IF ~IsSome(user)
                THEN Reply(c, req, Err(UnknownEmail), "none")
                ELSE IF Unwrap(user).password_hash.alg # "salted"
                THEN Reply(c, req, Err(PasswordError("verify")), "none")
                ELSE IF ~PasswordMatches(Unwrap(user), req)
                THEN Reply(c, req, Err(WrongPassword), "none")
                ELSE IF flt = "jwt"
                THEN Reply(c, req, Err(JwtError("encode")), "jwt")
                ELSE LET access == GenerateAccessToken(JwtSecret, Unwrap(user).id, now)
                         refresh == GenerateRefreshToken(JwtSecret, Unwrap(user).id, now)
                     IN  Await(c, "login_store", req,
                               [user |-> Unwrap(user),
                                access_token |-> access.token,
                                access_exp |-> access.exp,
                                refresh_token |-> refresh.token,
                                refresh_exp |-> refresh.exp,
                                ttl |-> RefreshEntryTtl(refresh.exp, now)])

LoginStoreKeepingFirst(c, flt) ==
    /\ out = None
    /\ clients[c].pc = "login_store"
    /\ UNCHANGED << wallet, issued, users, now, nextReset >>
    /\ LET l == clients[c].loc
       IN  IF flt = "redis" \/ l.ttl <= 0
           THEN /\ Reply(c, clients[c].req, Err(RedisError("unreachable")),
                         IF flt = "redis" THEN "redis" ELSE "none")
                /\ UNCHANGED session
           ELSE /\ session' = IF RefreshKey(l.user.id) \in DOMAIN session
                            THEN session
                            ELSE Put(session, RefreshKey(l.user.id), l.refresh_token, l.ttl, now)
                /\ Await(c, "login_update", clients[c].req, l)
LoginStoreBestEffort(c, flt) ==
    /\ out = None
    /\ clients[c].pc = "login_store"
    /\ UNCHANGED << wallet, issued, users, now, nextReset >>
    /\ LET l == clients[c].loc
       IN  IF flt = "redis" \/ l.ttl <= 0
           THEN /\ Await(c, "login_update", clients[c].req, l)
                /\ UNCHANGED session
           ELSE /\ session' = Put(session, RefreshKey(l.user.id), l.refresh_token, l.ttl, now)
                /\ Await(c, "login_update", clients[c].req, l)
\* Lines 129-138: store_refresh_token (the cache refuses a time to live that
\* is not positive); suspended at update_last_login.
LoginStore(c, flt) ==
    /\ out = None
    /\ clients[c].pc = "login_store"
    /\ UNCHANGED << wallet, issued, users, now, nextReset >>
    /\ LET l == clients[c].loc
       IN  IF flt = "redis" \/ l.ttl <= 0
           THEN /\ Reply(c, clients[c].req, Err(RedisError("unreachable")),
                         IF flt = "redis" THEN "redis" ELSE "none")
                /\ UNCHANGED session
           ELSE /\ session' = Put(session, RefreshKey(l.user.id), l.refresh_token, l.ttl, now)
                /\ Await(c, "login_update", clients[c].req, l)

LoginUpdateRehashing(c, flt) ==
    /\ out = None
    /\ clients[c].pc = "login_update"
    /\ UNCHANGED << issued, session, now, nextReset >>
    /\ LET l == clients[c].loc
       IN  IF flt = "last_login"
           THEN /\ Reply(c, clients[c].req, Err(DbError("unreachable")), "last_login")
                /\ UNCHANGED << users, wallet >>
           ELSE /\ users' = UpdatePassword(UpdateLastLoginRow(users, l.user.id, now), l.user.id,
                                           HashPassword(clients[c].req.password, "s2"))
                /\ Reply(c, clients[c].req, LoginReply(l), "none")
                /\ wallet' = Some([access_token |-> l.access_token,
                                   refresh_token |-> l.refresh_token,
                                   user |-> Projection(l.user)])
\* Lines 140-163: update_last_login, reply.
LoginUpdate(c, flt) ==
    /\ out = None
    /\ clients[c].pc = "login_update"
    /\ UNCHANGED << issued, session, now, nextReset >>
    /\ LET l == clients[c].loc
       IN  IF flt = "last_login"
           THEN /\ Reply(c, clients[c].req, Err(DbError("unreachable")), "last_login")
                /\ UNCHANGED << users, wallet >>
           ELSE /\ users' = UpdateLastLoginRow(users, l.user.id, now)
                /\ Reply(c, clients[c].req, LoginReply(l), "none")
                /\ wallet' = Some([access_token |-> l.access_token,
                                   refresh_token |-> l.refresh_token,
                                   user |-> Projection(l.user)])

\* --------------------------------------------------------- forgot_password
\* Lines 202-209.
ForgotPasswordReply ==
    Ok([success |-> TRUE,
        message |-> "If an account with that email exists, a password reset link has been sent."])

ForgotFindTelling(c, req, flt) ==
    /\ out = None
    /\ clients[c].pc = "idle"
    /\ UNCHANGED << wallet, issued, users, session, now >>
    /\ IF ~ValidRequest(req)
       THEN /\ Reply(c, req, Err(InvalidRequest), "none")
            /\ UNCHANGED nextReset
       ELSE IF flt = "db"
       THEN /\ Reply(c, req, Err(DbError("unreachable")), "db")
            /\ UNCHANGED nextReset
       ELSE LET user == FindByEmail(users, req.email)
            IN  IF IsSome(user)
                THEN /\ nextReset <= MaxResetTokens
                     /\ nextReset' = nextReset + 1
                     /\ Await(c, "forgot_store", req,
                              [user |-> Unwrap(user), reset_token |-> nextReset])
                ELSE /\ Reply(c, req, Ok([success |-> FALSE, message |-> "No such account."]),
                              "none")
                     /\ UNCHANGED nextReset
\* Lines 166-187: validate, find_by_email; for a user, draw the reset token;
\* suspended at store_reset_token.  Without a user: reply.
ForgotFind(c, req, flt) ==
    /\ out = None
    /\ clients[c].pc = "idle"
    /\ UNCHANGED << wallet, issued, users, session, now >>
    /\ IF ~ValidRequest(req)
       THEN /\ Reply(c, req, Err(InvalidRequest), "none")
            /\ UNCHANGED nextReset
       ELSE IF flt = "db"
       THEN /\ Reply(c, req, Err(DbError("unreachable")), "db")
            /\ UNCHANGED nextReset
       ELSE LET user == FindByEmail(users, req.email)
            IN  IF IsSome(user)
                THEN /\ nextReset <= MaxResetTokens
                     /\ nextReset' = nextReset + 1
                     /\ Await(c, "forgot_store", req,
                              [user |-> Unwrap(user), reset_token |-> nextReset])
                ELSE /\ Reply(c, req, ForgotPasswordReply, "none")
                     /\ UNCHANGED nextReset

\* Lines 189-209: store_reset_token with a time to live of 30 minutes, reply.
ForgotStore(c, flt) ==
    /\ out = None
    /\ clients[c].pc = "forgot_store"
    /\ UNCHANGED << wallet, users, now, nextReset >>
    /\ LET l == clients[c].loc
       IN  IF flt = "redis"
           THEN /\ Reply(c, clients[c].req, Err(RedisError("unreachable")), "redis")
                /\ UNCHANGED << session, issued >>
           ELSE /\ session' = Put(session, ResetKey(l.reset_token),
                                  UuidToString(l.user.id), ResetTtl, now)
                /\ issued' = issued \cup {[token |-> l.reset_token, at |-> now,
                                            user_id |-> l.user.id]}
                /\ Reply(c, clients[c].req, ForgotPasswordReply, "none")

\* ---------------------------------------------------------- reset_password
\* Lines 232-236.
InvalidResetToken == BadRequest("Invalid or expired reset token.")
ResetHashOfNothing(req, salt) == HashPassword("", salt)
\* Line 239.
ResetHash(req, salt) == HashPassword(req.new_password, salt)
\* Lines 246-252.
ResetPasswordReply == Ok([success |-> TRUE, message |-> "Password reset successfully"])

\* Lines 212-239: validate, get_user_id_from_reset_token, hash the new
\* password; suspended at update_password.
ResetGet(c, req, salt, flt) ==
    /\ out = None
    /\ clients[c].pc = "idle"
    /\ UNCHANGED << wallet, issued, users, session, now, nextReset >>
    /\ IF ~ValidRequest(req)
       THEN Reply(c, req, Err(InvalidRequest), "none")
       ELSE IF flt = "redis"
       THEN Reply(c, req, Err(RedisError("unreachable")), "redis")
       ELSE LET value == Get(session, ResetKey(req.token), now)
                user_id == IF IsSome(value) THEN UuidParse(Unwrap(value)) ELSE None
            IN  IF ~IsSome(user_id)
                THEN Reply(c, req, Err(InvalidResetToken), "none")
                ELSE IF flt = "hash"
                THEN Reply(c, req, Err(PasswordError("hash")), "hash")
                ELSE Await(c, "reset_update", req,
                           [user_id |-> Unwrap(user_id),
                            hashed_password |-> ResetHash(req, salt)])

ResetUpdateRevoking(c, flt) ==
    /\ out = None
    /\ clients[c].pc = "reset_update"
    /\ UNCHANGED << wallet, issued, now, nextReset >>
    /\ LET l == clients[c].loc
       IN  IF flt = "db"
           THEN /\ Reply(c, clients[c].req, Err(DbError("unreachable")), "db")
                /\ UNCHANGED << users, session >>
           ELSE /\ users' = UpdatePassword(users, l.user_id, l.hashed_password)
                /\ session' = [k \in DOMAIN session \ {RefreshKey(l.user_id)} |-> session[k]]
                /\ Reply(c, clients[c].req, ResetPasswordReply, "none")
ResetUpdateConsuming(c, flt) ==
    /\ out = None
    /\ clients[c].pc = "reset_update"
    /\ UNCHANGED << wallet, issued, now, nextReset >>
    /\ LET l == clients[c].loc
       IN  IF flt = "db"
           THEN /\ Reply(c, clients[c].req, Err(DbError("unreachable")), "db")
                /\ UNCHANGED << users, session >>
           ELSE /\ users' = UpdatePassword(users, l.user_id, l.hashed_password)
                /\ session' = [k \in DOMAIN session \ {ResetKey(clients[c].req.token)} |->
                                  session[k]]
                /\ Reply(c, clients[c].req, ResetPasswordReply, "none")
\* Lines 241-252: update_password, reply.
ResetUpdate(c, flt) ==
    /\ out = None
    /\ clients[c].pc = "reset_update"
    /\ UNCHANGED << wallet, issued, session, now, nextReset >>
    /\ LET l == clients[c].loc
       IN  IF flt = "db"
           THEN /\ Reply(c, clients[c].req, Err(DbError("unreachable")), "db")
                /\ UNCHANGED users
           ELSE /\ users' = UpdatePassword(users, l.user_id, l.hashed_password)
                /\ Reply(c, clients[c].req, ResetPasswordReply, "none")

\* ---------------------------------------------------------- validate_token
UserIsFound(user) == IsSome(user)
\* Lines 280-288: the user is there and active.
UserIsValid(user) == IsSome(user) /\ Unwrap(user).is_active
\* Line 285.
NotActiveOrNotFound == Unauthorized("User not active or not found")
ValidateTokenReplyAnonymous(user) ==
    Ok([valid |-> TRUE, user |-> None, message |-> "Token is valid"])
\* Lines 290-306.
ValidateTokenReply(user) ==
    Ok([valid |-> TRUE, user |-> Some(Projection(user)), message |-> "Token is valid"])

ValidateVerifyAccessOnly(c, req) ==
    /\ out = None
    /\ clients[c].pc = "idle"
    /\ UNCHANGED << wallet, issued, users, session, now, nextReset >>
    /\ IF ~ValidRequest(req)
       THEN Reply(c, req, Err(InvalidRequest), "none")
       ELSE LET v == VerifyToken(JwtSecret, req.access_token, now)
            IN  IF ~v.ok
                THEN Reply(c, req, Err(JwtError(v.err)), "none")
                ELSE IF Unwrap(v.claims).exp - Unwrap(v.claims).iat # AccessTtl
                THEN Reply(c, req, Err(JwtError("kind")), "none")
                ELSE LET user_id == UuidParse(Unwrap(v.claims).sub)
                     IN  IF ~IsSome(user_id)
                         THEN Reply(c, req, Err(Internal("Invalid user ID in token")), "none")
                         ELSE Await(c, "validate_find", req, [user_id |-> Unwrap(user_id)])
\* Lines 255-272: validate, verify the token against the clock, parse the
\* subject; suspended at find_by_id.
ValidateVerify(c, req) ==
    /\ out = None
    /\ clients[c].pc = "idle"
    /\ UNCHANGED << wallet, issued, users, session, now, nextReset >>
    /\ IF ~ValidRequest(req)
       THEN Reply(c, req, Err(InvalidRequest), "none")
       ELSE LET v == VerifyToken(JwtSecret, req.access_token, now)
            IN  IF ~v.ok
                THEN Reply(c, req, Err(JwtError(v.err)), "none")
                ELSE LET user_id == UuidParse(Unwrap(v.claims).sub)
                     IN  IF ~IsSome(user_id)
                         THEN Reply(c, req, Err(Internal("Invalid user ID in token")), "none")
                         ELSE Await(c, "validate_find", req, [user_id |-> Unwrap(user_id)])

\* Lines 274-306: find_by_id, reply.
ValidateFind(c, flt) ==
    /\ out = None
    /\ clients[c].pc = "validate_find"
    /\ UNCHANGED << wallet, issued, users, session, now, nextReset >>
    /\ IF flt = "db"
       THEN Reply(c, clients[c].req, Err(DbError("unreachable")), "db")
       ELSE LET user == FindById(users, clients[c].loc.user_id)
            IN  IF UserIsValid(user)
                THEN Reply(c, clients[c].req, ValidateTokenReply(Unwrap(user)), "none")
                ELSE Reply(c, clients[c].req, Err(NotActiveOrNotFound), "none")

\* ------------------------------------------------------------- environment
\* Time passes; the cache drops the keys whose time to live has run out.
Tick ==
    /\ out = None
    /\ now < MaxClock
    /\ now' = now + 1
    /\ session' = Live(session, now + 1)
    /\ out' = None
    /\ fault' = "none"
    /\ UNCHANGED << wallet, issued, users, nextReset, clients >>

\* The followed account is deactivated (outside the service; section 4.4).
Deactivate(id) ==
    /\ out = None
    /\ id \in 1..Len(users)
    /\ users[id].email = PrimaryEmail
    /\ users[id].is_active
    /\ users' = [users EXCEPT ![id].is_active = FALSE]
    /\ out' = None
    /\ fault' = "none"
    /\ UNCHANGED << wallet, issued, session, now, nextReset, clients >>

\* Ok(Response::new(reply)) / Err(status): the reply of the last step is
\* sent to its caller; nothing else happens in between.
Respond ==
    /\ out # None
    /\ out' = None
    /\ fault' = "none"
    /\ UNCHANGED << wallet, issued, users, session, now, nextReset, clients >>

\* ---------------------------------------------------------------- requests
\* The second account, when it signs up, does so on the empty table.
SignUpRequests ==
    {SignUpRequest(PrimaryEmail, "pw1", "Ann", "Lee"),
     SignUpRequest("nobody", "pw1", "Ann", "Lee"),
     SignUpRequest(PrimaryEmail, "pw1", "Ann", "")}
        \cup (IF users = << >> THEN {SignUpRequest(OtherEmail, "pw2", "Bob", "Ray")} ELSE {})
LoginRequests ==
    {LoginRequest(e, p) : e \in {PrimaryEmail, UnregisteredEmail}, p \in Passwords}
        \cup {LoginRequest(PrimaryEmail, "")}
ForgotPasswordRequests ==
    {ForgotPasswordRequest(e) : e \in {PrimaryEmail, UnregisteredEmail, ""}}
\* The reset tokens handed out so far, one that never was, and the empty one.
UnknownResetToken == MaxResetTokens + 1
ResetPasswordRequests ==
    {ResetPasswordRequest(t, p) : t \in 1..(nextReset - 1) \cup {UnknownResetToken},
                                  p \in Passwords}
        \cup {ResetPasswordRequest(0, "pw1"), ResetPasswordRequest(UnknownResetToken, "")}
\* What a caller can present: the tokens a Login returned to it, one of them
\* with its expiry pushed back, one signed with another key, a token under
\* the service's key whose subject is no row of the table (its account was
\* removed), and strings that are no token.
Tampered(token) == << [token[1] EXCEPT !.exp = MaxClock + RefreshTtl + 1], token[2] >>
Forged(token) == << token[1], Mac("other", token[1]) >>
KnownTokens ==
    IF IsSome(wallet)
    THEN LET h == Unwrap(wallet)
         IN  {h.access_token, h.refresh_token, Tampered(h.access_token),
              Forged(h.access_token)}
    ELSE {}
OrphanToken == GenerateAccessToken(JwtSecret, Len(users) + 1, now).token
ValidateTokenRequests ==
    {ValidateTokenRequest(t) : t \in KnownTokens \cup {OrphanToken, GarbageToken, EmptyToken}}

\* One caller at a time: every request, every failure.
Next ==
    \/ \E req \in SignUpRequests, salt \in Salts, flt \in {"none", "hash"} :
          SignUpStart("c1", req, salt, flt)
    \/ \E flt \in {"none", "db"} : SignUpCreate("c1", flt)
    \/ \E req \in LoginRequests, flt \in {"none", "db", "jwt"} : LoginFind("c1", req, flt)
    \/ \E flt \in {"none", "redis"} : LoginStore("c1", flt)
    \/ \E flt \in {"none", "last_login"} : LoginUpdate("c1", flt)
    \/ \E req \in ForgotPasswordRequests, flt \in {"none", "db"} : ForgotFind("c1", req, flt)
    \/ \E flt \in {"none", "redis"} : ForgotStore("c1", flt)
    \/ \E req \in ResetPasswordRequests, salt \in Salts, flt \in {"none", "redis", "hash"} :
          ResetGet("c1", req, salt, flt)
    \/ \E flt \in {"none", "db"} : ResetUpdate("c1", flt)
    \/ \E req \in ValidateTokenRequests : ValidateVerify("c1", req)
    \/ \E flt \in {"none", "db"} : ValidateFind("c1", flt)
    \/ Tick
    \/ \E id \in 1..2 : Deactivate(id)
    \/ Respond

Spec == Init /\ [][Next]_vars

\* Two callers at a time on the followed account, the stores reachable.
ConcSignUpRequests == {SignUpRequest(PrimaryEmail, p, "Ann", "Lee") : p \in Passwords}
ConcLoginRequests == {LoginRequest(PrimaryEmail, p) : p \in Passwords}
ConcForgotPasswordRequests == {ForgotPasswordRequest(PrimaryEmail)}
ConcResetPasswordRequests ==
    {ResetPasswordRequest(t, p) : t \in 1..(nextReset - 1), p \in Passwords}
ConcValidateTokenRequests ==
    {ValidateTokenRequest(t) :
        t \in IF IsSome(wallet)
              THEN {Unwrap(wallet).access_token, Unwrap(wallet).refresh_token}
              ELSE {}}
NextConc ==
    \/ \E c \in Clients, req \in ConcSignUpRequests, salt \in Salts :
          SignUpStart(c, req, salt, "none")
    \/ \E c \in Clients : SignUpCreate(c, "none")
    \/ \E c \in Clients, req \in ConcLoginRequests : LoginFind(c, req, "none")
    \/ \E c \in Clients : LoginStore(c, "none")
    \/ \E c \in Clients : LoginUpdate(c, "none")
    \/ \E c \in Clients, req \in ConcForgotPasswordRequests : ForgotFind(c, req, "none")
    \/ \E c \in Clients : ForgotStore(c, "none")
    \/ \E c \in Clients, req \in ConcResetPasswordRequests, salt \in Salts :
          ResetGet(c, req, salt, "none")
    \/ \E c \in Clients : ResetUpdate(c, "none")
    \/ \E c \in Clients, req \in ConcValidateTokenRequests : ValidateVerify(c, req)
    \/ \E c \in Clients : ValidateFind(c, "none")
    \/ Tick
    \/ Respond

SpecConc == Init /\ [][NextConc]_vars
\* ================================================================= claims
\* The exchange a step completes, seen from the step (an action) and from
\* the state it leads to.
Exchange == Unwrap(out)
\* The step is one of c's handler, taken from position pc, that replies.
RepliesTo(c, pc) == clients[c].pc = pc /\ out' # None /\ Unwrap(out').client = c
Replied(op) == out # None /\ Exchange.req.op = op
CredentialsMatch(us, req) ==
    /\ IsSome(FindByEmail(us, req.email))
    /\ VerifyPassword(Unwrap(FindByEmail(us, req.email)).password_hash, req.password)
WellSigned(token, t) == VerifyToken(JwtSecret, token, t).ok
\* token is a token of the service, valid when issued, for the account of email.
TokenOf(token, us, email) ==
    /\ Len(token) = 2
    /\ WellSigned(token, token[1].iat)
    /\ IsSome(FindByEmail(us, email))
    /\ UuidParse(token[1].sub) = Some(Unwrap(FindByEmail(us, email)).id)

\* The row of the user a token names, if there is one.
SubjectOf(token) == FindById(users, Unwrap(UuidParse(token[1].sub)))

\* C1: a valid SignUp with an email that is not in the User Store succeeds
\* and stores a hash of its password; a stored hash changes only by an
\* update_password of ResetPassword for that user; and a Login whose email
\* and password match the stored hash, with no failure injected, is not
\* rejected and replies with an access token and a refresh token.
C1_SignUpStep(c) ==
    /\ RepliesTo(c, "idle") /\ Unwrap(out').req.op = "SignUp" /\ fault' = "none"
          => ~ValidRequest(Unwrap(out').req)
    /\ RepliesTo(c, "signup_create") /\ fault' = "none"
            /\ ~IsSome(FindByEmail(users, clients[c].req.email))
          => /\ Unwrap(out').resp.kind = "Ok"
             /\ Unwrap(Unwrap(out').resp.body).success
             /\ CredentialsMatch(users', clients[c].req)
C1_HashKept ==
    \A i \in 1..Len(users) :
        /\ i <= Len(users')
        /\ users'[i].email = users[i].email
        /\ users'[i].password_hash # users[i].password_hash
              => \E c \in Clients : RepliesTo(c, "reset_update") /\ clients[c].loc.user_id = i
C1_LoginStep(c) ==
    /\ RepliesTo(c, "idle") /\ Unwrap(out').req.op = "Login" /\ fault' = "none"
          => ~(ValidRequest(Unwrap(out').req) /\ CredentialsMatch(users, Unwrap(out').req))
    /\ RepliesTo(c, "login_store") => fault' # "none"
    /\ RepliesTo(c, "login_update") /\ fault' = "none"
          => /\ Unwrap(out').resp.kind = "Ok"
             /\ TokenOf(Unwrap(Unwrap(out').resp.body).access_token, users,
                        clients[c].req.email)
             /\ TokenOf(Unwrap(Unwrap(out').resp.body).refresh_token, users,
                        clients[c].req.email)
C1_SignUpThenLogin ==
    [][C1_HashKept /\ \A c \in Clients : C1_SignUpStep(c) /\ C1_LoginStep(c)]_vars
\* A Login with the password of the SignUp has just replied with its tokens.
C1_Witness ==
    /\ Replied("Login") /\ Exchange.resp.kind = "Ok"
    /\ Exchange.req = LoginRequest(PrimaryEmail, "pw1")
    /\ CredentialsMatch(users, SignUpRequest(PrimaryEmail, "pw1", "Ann", "Lee"))
    /\ issued = {}

\* C2: Login replies to an email that is not registered and to a registered
\* email with a wrong password with the same status: Unauthorized, and the
\* one message "Invalid credentials".
C2_Rejection == [kind |-> "Unauthorized", message |-> "Invalid credentials", body |-> None]
C2_LoginStep(c) ==
    RepliesTo(c, "idle") /\ Unwrap(out').req.op = "Login" /\ fault' = "none"
        /\ ValidRequest(Unwrap(out').req) /\ ~CredentialsMatch(users, Unwrap(out').req)
      => Unwrap(out').resp = C2_Rejection
C2_SameRejection == [][\A c \in Clients : C2_LoginStep(c)]_vars
\* A wrong password for the registered account has just been rejected.
C2_Witness ==
    /\ Replied("Login") /\ Exchange.resp.kind = "Unauthorized"
    /\ IsSome(FindByEmail(users, Exchange.req.email))
    /\ ~CredentialsMatch(users, Exchange.req)
\* An email that is not registered has just been rejected, while another
\* account is registered.
C2_WitnessUnknown ==
    /\ Replied("Login") /\ Exchange.resp.kind = "Unauthorized"
    /\ ~IsSome(FindByEmail(users, Exchange.req.email))
    /\ users # << >>

\* C3: with no store failure, ForgotPassword replies to a registered email
\* and to one that is not registered with the same response (success =
\* true, the one message); a reset:<token> key enters the Session Store only
\* by the store_reset_token of a ForgotPassword for a registered email, and
\* the handler writes nothing to the Session Store otherwise.
C3_Response ==
    [kind |-> "Ok", message |-> "",
     body |-> Some([success |-> TRUE,
                    message |-> "If an account with that email exists, a password reset link has been sent."])]
C3_ResetKeys(s) == {k \in DOMAIN s : k[1] = "reset"}
C3_ForgotStep(c) ==
    /\ RepliesTo(c, "idle") /\ Unwrap(out').req.op = "ForgotPassword" /\ fault' = "none"
            /\ ValidRequest(Unwrap(out').req)
          => /\ ~IsSome(FindByEmail(users, Unwrap(out').req.email))
             /\ Unwrap(out').resp = C3_Response
             /\ session' = session
    /\ clients[c].pc = "idle" /\ clients'[c].pc = "forgot_store"
          => /\ IsSome(FindByEmail(users, clients'[c].req.email))
             /\ session' = session
    /\ RepliesTo(c, "forgot_store") /\ fault' = "none"
          => /\ IsSome(FindByEmail(users, clients[c].req.email))
             /\ Unwrap(out').resp = C3_Response
             /\ ResetKey(clients[c].loc.reset_token) \in DOMAIN session'
             /\ ResetKey(clients[c].loc.reset_token) \notin DOMAIN session
C3_NewResetKey ==
    C3_ResetKeys(session') \subseteq C3_ResetKeys(session)
        \/ \E c \in Clients :
              /\ RepliesTo(c, "forgot_store")
              /\ IsSome(FindByEmail(users, clients[c].req.email))
C3_SameResponse == [][C3_NewResetKey /\ \A c \in Clients : C3_ForgotStep(c)]_vars
\* ForgotPassword for the registered account has just replied, its reset
\* key stored.
C3_Witness ==
    /\ Replied("ForgotPassword") /\ Exchange.resp = C3_Response
    /\ IsSome(FindByEmail(users, Exchange.req.email))
    /\ C3_ResetKeys(session) # {}
\* ForgotPassword for an email that is not registered has just replied,
\* while an account is registered and no reset key is stored.
C3_WitnessAbsent ==
    /\ Replied("ForgotPassword") /\ Exchange.resp = C3_Response
    /\ ~IsSome(FindByEmail(users, Exchange.req.email))
    /\ users # << >> /\ C3_ResetKeys(session) = {}

\* C4: ForgotPassword stores the reset token with a time to live of 30
\* minutes (one unit of the clock); a ResetPassword with a token that was
\* never issued, or that was issued more than 30 minutes ago, replies
\* BadRequest, does not reach update_password and leaves the users table as
\* it is.
C4_BadRequest ==
    [kind |-> "BadRequest", message |-> "Invalid or expired reset token.", body |-> None]
\* Never issued, or issued 30 minutes ago or earlier.
C4_Stale(token, t) == \A i \in issued : i.token = token => t - i.at >= 1
C4_ResetStep(c) ==
    /\ RepliesTo(c, "forgot_store") /\ fault' = "none"
          => session'[ResetKey(clients[c].loc.reset_token)].expires_at = now + 1
    /\ RepliesTo(c, "idle") /\ Unwrap(out').req.op = "ResetPassword" /\ fault' = "none"
            /\ ValidRequest(Unwrap(out').req) /\ C4_Stale(Unwrap(out').req.token, now)
          => /\ Unwrap(out').resp = C4_BadRequest
             /\ users' = users
    /\ clients[c].pc = "idle" /\ clients'[c].pc = "reset_update"
          => ~C4_Stale(clients'[c].req.token, now)
C4_ResetTokenExpires == [][\A c \in Clients : C4_ResetStep(c)]_vars
\* A ResetPassword with a token issued more than 30 minutes before has just
\* been refused.
C4_Witness ==
    /\ Replied("ResetPassword") /\ Exchange.resp = C4_BadRequest
    /\ \E i \in issued : i.token = Exchange.req.token /\ now - i.at > 1
\* A ResetPassword with a token that was never issued has just been refused.
C4_WitnessNeverIssued ==
    /\ Replied("ResetPassword") /\ Exchange.resp = C4_BadRequest
    /\ Exchange.req.token # 0
    /\ \A i \in issued : i.token # Exchange.req.token
    /\ users # << >>

\* C5: a ValidateToken whose token still verifies (signature and expiry)
\* when it replies, with no store failure, replies Unauthorized whenever the
\* user of the token's subject is not in the users table or is not active.
C5_InactiveRejected ==
    Replied("ValidateToken") /\ fault = "none"
        /\ WellSigned(Exchange.req.access_token, now)
        /\ (~IsSome(SubjectOf(Exchange.req.access_token))
              \/ ~Unwrap(SubjectOf(Exchange.req.access_token)).is_active)
      => Exchange.resp.kind = "Unauthorized" /\ Exchange.resp.body = None
\* The access token of a Login is refused before its expiry, its user
\* having been deactivated since.
C5_Witness ==
    /\ Replied("ValidateToken") /\ Exchange.resp.kind = "Unauthorized"
    /\ IsSome(wallet) /\ Exchange.req.access_token = Unwrap(wallet).access_token
    /\ WellSigned(Exchange.req.access_token, now)
    /\ IsSome(SubjectOf(Exchange.req.access_token))
    /\ ~Unwrap(SubjectOf(Exchange.req.access_token)).is_active
\* A token that verifies, for a user that is not in the table, is refused.
C5_WitnessAbsent ==
    /\ Replied("ValidateToken") /\ Exchange.resp.kind = "Unauthorized"
    /\ WellSigned(Exchange.req.access_token, now)
    /\ ~IsSome(SubjectOf(Exchange.req.access_token))

\* C6: a ResetPassword that succeeds was made with a reset token issued by
\* ForgotPassword for a user U; it leaves U's stored hash the hash of the
\* new password and every other row as it was.  Login decides on the stored
\* hash: with U's email and the new password it goes on to issue tokens,
\* with any other password it replies Unauthorized.
C6_IssuedFor(token) == {i.user_id : i \in {j \in issued : j.token = token}}
C6_ResetStep(c) ==
    RepliesTo(c, "reset_update") /\ Unwrap(out').resp.kind = "Ok"
      => /\ C6_IssuedFor(clients[c].req.token) = {clients[c].loc.user_id}
         /\ \A U \in C6_IssuedFor(clients[c].req.token) :
               /\ U \in 1..Len(users) /\ Len(users') = Len(users)
               /\ \A p \in Passwords :
                     VerifyPassword(users'[U].password_hash, p)
                         <=> p = clients[c].req.new_password
               /\ \A j \in 1..Len(users) :
                     j # U => users'[j].password_hash = users[j].password_hash
C6_LoginStep(c) ==
    /\ RepliesTo(c, "idle") /\ Unwrap(out').req.op = "Login" /\ fault' = "none"
            /\ ValidRequest(Unwrap(out').req)
          => /\ ~CredentialsMatch(users, Unwrap(out').req)
             /\ Unwrap(out').resp.kind = "Unauthorized"
    /\ clients[c].pc = "idle" /\ clients'[c].pc = "login_store"
          => CredentialsMatch(users, clients'[c].req)
    /\ RepliesTo(c, "login_update") /\ fault' = "none" => Unwrap(out').resp.kind = "Ok"
C6_ResetThenLogin == [][\A c \in Clients : C6_ResetStep(c) /\ C6_LoginStep(c)]_vars
\* After a reset of the followed account to another password than the one
\* of its SignUp, a Login with the new password has just succeeded, the
\* second account still holding its own hash.
C6_Witness ==
    /\ Replied("Login") /\ Exchange.resp.kind = "Ok"
    /\ Exchange.req = LoginRequest(PrimaryEmail, "pw2")
    /\ CredentialsMatch(users, LoginRequest(OtherEmail, "pw2"))
    /\ issued # {}
\* After that reset, a Login with the password of the SignUp has just been
\* refused.
C6_WitnessOld ==
    /\ Replied("Login") /\ Exchange.resp.kind = "Unauthorized"
    /\ Exchange.req = LoginRequest(PrimaryEmail, "pw1")
    /\ CredentialsMatch(users, LoginRequest(PrimaryEmail, "pw2"))

\* C7: Login's reply is what the caller holds; a ValidateToken with the
\* access token of the last Login, that token still verifying and its user
\* active when ValidateToken replies, with no store failure, replies valid =
\* true and the user projection Login returned.
C7_LoginThenValidate ==
    /\ Replied("Login") /\ Exchange.resp.kind = "Ok"
          => /\ IsSome(wallet)
             /\ Unwrap(wallet).access_token = Unwrap(Exchange.resp.body).access_token
             /\ Some(Unwrap(wallet).user) = Unwrap(Exchange.resp.body).user
    /\ Replied("ValidateToken") /\ fault = "none" /\ IsSome(wallet)
            /\ Exchange.req.access_token = Unwrap(wallet).access_token
            /\ WellSigned(Exchange.req.access_token, now)
            /\ IsSome(SubjectOf(Exchange.req.access_token))
            /\ Unwrap(SubjectOf(Exchange.req.access_token)).is_active
          => /\ Exchange.resp.kind = "Ok"
             /\ Unwrap(Exchange.resp.body).valid
             /\ Unwrap(Exchange.resp.body).user = Some(Unwrap(wallet).user)
             /\ DOMAIN Unwrap(wallet).user = {"id", "email", "first_name", "last_name"}
\* ValidateToken has just accepted the access token of the last Login.
C7_Witness ==
    /\ Replied("ValidateToken") /\ Exchange.resp.kind = "Ok"
    /\ IsSome(wallet) /\ Exchange.req.access_token = Unwrap(wallet).access_token
    /\ Unwrap(Exchange.resp.body).user = Some(Unwrap(wallet).user)

\* C8: the expires_in of every Login that succeeds is the configured time to
\* live of an access token, a duration, whatever the clock when Login ran.
C8_ExpiresInIsTtl ==
    Replied("Login") /\ Exchange.resp.kind = "Ok"
      => Unwrap(Exchange.resp.body).expires_in = AccessTtl
\* What Login returns instead: the expiry timestamp in the claims of the
\* access token.
C8_ExpiresInIsExpiry ==
    Replied("Login") /\ Exchange.resp.kind = "Ok"
      => Unwrap(Exchange.resp.body).expires_in
            = Unwrap(Exchange.resp.body).access_token[1].exp
\* A Login that ran after the clock had advanced has just replied with an
\* expires_in that is not the time to live.
C8_Witness ==
    /\ Replied("Login") /\ Exchange.resp.kind = "Ok"
    /\ Unwrap(Exchange.resp.body).access_token[1].iat > 0
    /\ Unwrap(Exchange.resp.body).expires_in # AccessTtl

\* C9: of SignUp requests with the same email that run concurrently, the
\* create of the first inserts the row and replies success, the create of
\* any other replies AlreadyExists and leaves the table as it is; no two
\* rows of the users table have the same email; and SignUp does not look the
\* email up before create: a valid request always reaches create.
C9_UniqueEmails(us) ==
    \A i, j \in 1..Len(us) : us[i].email = us[j].email => i = j
C9_SignUpStep(c) ==
    /\ RepliesTo(c, "idle") /\ Unwrap(out').req.op = "SignUp" /\ fault' = "none"
          => ~ValidRequest(Unwrap(out').req)
    /\ RepliesTo(c, "signup_create") /\ fault' = "none"
          => IF IsSome(FindByEmail(users, clients[c].req.email))
             THEN /\ Unwrap(out').resp.kind = "AlreadyExists"
                  /\ users' = users
             ELSE /\ Unwrap(out').resp.kind = "Ok"
                  /\ Len(users') = Len(users) + 1
                  /\ users'[Len(users')].email = clients[c].req.email
                  /\ \A i \in 1..Len(users) : users'[i] = users[i]
C9_OneSignUpWins ==
    [][C9_UniqueEmails(users') /\ \A c \in Clients : C9_SignUpStep(c)]_vars
\* The create of one caller has just succeeded while the other caller, with
\* the same email, is suspended at its own create.
C9_Witness ==
    /\ Replied("SignUp") /\ Exchange.resp.kind = "Ok"
    /\ \E d \in Clients \ {Exchange.client} :
          /\ clients[d].pc = "signup_create"
          /\ clients[d].req.email = Exchange.req.email
\* Both callers have been answered: the second one with AlreadyExists, for
\* a request that differs from the row in the table.
C9_WitnessLoser ==
    /\ Replied("SignUp") /\ Exchange.resp.kind = "AlreadyExists"
    /\ Len(users) = 1 /\ users[1].email = Exchange.req.email
    /\ ~CredentialsMatch(users, Exchange.req)

\* C10: a Login whose credentials matched and whose refresh token was
\* registered replies with the tokens and the user even when
\* update_last_login fails.
C10_LastLoginBestEffort ==
    [][\A c \in Clients :
          RepliesTo(c, "login_update")
            => /\ Unwrap(out').resp.kind = "Ok"
               /\ Unwrap(Unwrap(out').resp.body).access_token = clients[c].loc.access_token
               /\ Unwrap(Unwrap(out').resp.body).user = Some(Projection(clients[c].loc.user))]_vars
\* What Login does instead: a failure of update_last_login is the reply.
C10_LastLoginFailureFails ==
    [][\A c \in Clients :
          RepliesTo(c, "login_update") /\ fault' = "last_login"
            => /\ Unwrap(out').resp.kind = "StoreError"
               /\ Unwrap(out').resp.body = None]_vars
\* update_last_login has just failed, the refresh token registered: Login
\* replied with the failure.
C10_Witness ==
    /\ Replied("Login") /\ fault = "last_login"
    /\ Exchange.resp.kind # "Ok"
    /\ CredentialsMatch(users, Exchange.req)
    /\ RefreshKey(Unwrap(FindByEmail(users, Exchange.req.email)).id) \in DOMAIN session

\* C11: Login replies with tokens only from its last step, which is reached
\* only through a store_refresh_token that wrote the refresh token of the
\* reply under the key of its user; when that write fails Login replies
\* with an error that carries no token, the Session Store as it was.
C11_LoginStep(c) ==
    /\ RepliesTo(c, "idle") /\ Unwrap(out').req.op = "Login"
          => Unwrap(out').resp.kind # "Ok" /\ Unwrap(out').resp.body = None
    /\ RepliesTo(c, "login_store")
          => /\ Unwrap(out').resp.kind = "StoreError"
             /\ Unwrap(out').resp.body = None
             /\ session' = session
    /\ clients[c].pc = "login_store" /\ fault' = "redis" => RepliesTo(c, "login_store")
    /\ clients'[c].pc = "login_update" => clients[c].pc \in {"login_store", "login_update"}
    /\ clients[c].pc = "login_store" /\ clients'[c].pc = "login_update"
          => /\ RefreshKey(clients[c].loc.user.id) \in DOMAIN session'
             /\ session'[RefreshKey(clients[c].loc.user.id)].value
                   = clients[c].loc.refresh_token
             /\ clients'[c].loc = clients[c].loc
    /\ clients[c].pc = "login_update" /\ clients'[c].pc = "login_update"
          => clients'[c] = clients[c]
    /\ RepliesTo(c, "login_update") /\ Unwrap(out').resp.kind = "Ok"
          => /\ Unwrap(Unwrap(out').resp.body).refresh_token = clients[c].loc.refresh_token
             /\ UuidParse(clients[c].loc.refresh_token[1].sub) = Some(clients[c].loc.user.id)
C11_RefreshRegistered == [][\A c \in Clients : C11_LoginStep(c)]_vars
\* A Login has just replied with the refresh token that is in the Session
\* Store under the key of its user.
C11_Witness ==
    /\ Replied("Login") /\ Exchange.resp.kind = "Ok"
    /\ \E i \in 1..Len(users) :
          /\ users[i].email = Exchange.req.email
          /\ RefreshKey(i) \in DOMAIN session
          /\ session[RefreshKey(i)].value = Unwrap(Exchange.resp.body).refresh_token
\* store_refresh_token has just failed: Login replied with the failure and
\* there is no refresh entry.
C11_WitnessFailure ==
    /\ Replied("Login") /\ fault = "redis"
    /\ Exchange.resp.kind = "StoreError" /\ Exchange.resp.body = None
    /\ CredentialsMatch(users, Exchange.req)
    /\ \A k \in DOMAIN session : k[1] # "refresh"

\* C12: in each of the five operations a request that fails validation is
\* answered ValidationError in the handler's first step, whether or not the
\* stores can be reached, with the User Store and the Session Store as they
\* were; no handler reaches a store call with such a request.
C12_ValidationStep(c) ==
    /\ RepliesTo(c, "idle") /\ ~ValidRequest(Unwrap(out').req)
          => /\ Unwrap(out').resp.kind = "ValidationError"
             /\ Unwrap(out').resp.body = None
             /\ fault' = "none"
             /\ users' = users /\ session' = session
    /\ clients'[c].pc # "idle" => ValidRequest(clients'[c].req)
C12_InvalidNoStoreAccess == [][\A c \in Clients : C12_ValidationStep(c)]_vars
C12_Rejected(op) ==
    /\ Replied(op) /\ Exchange.resp.kind = "ValidationError"
    /\ ~ValidRequest(Exchange.req)
    /\ users # << >> /\ DOMAIN session # {}
\* A request that fails validation has just been answered, an account
\* registered and the Session Store not empty: ResetPassword, and each of
\* the other operations.
C12_Witness == C12_Rejected("ResetPassword")
C12_WitnessSignUp == C12_Rejected("SignUp")
C12_WitnessLogin == C12_Rejected("Login")
C12_WitnessForgotPassword == C12_Rejected("ForgotPassword")
C12_WitnessValidateToken == C12_Rejected("ValidateToken")

\* C13: a ValidateToken whose token does not verify (malformed, signature
\* mismatch, expiry elapsed) replies Unauthorized in its first step and
\* never reaches find_by_id; in particular the access token of a Login is
\* refused once its time to live has elapsed.
C13_Reason(token) == VerifyToken(JwtSecret, token, now).err
C13_ValidateStep(c) ==
    /\ RepliesTo(c, "idle") /\ Unwrap(out').req.op = "ValidateToken"
            /\ ValidRequest(Unwrap(out').req)
            /\ ~WellSigned(Unwrap(out').req.access_token, now)
          => /\ C13_Reason(Unwrap(out').req.access_token)
                   \in {"malformed", "signature", "expired"}
             /\ Unwrap(out').resp.kind = "Unauthorized"
             /\ Unwrap(out').resp.body = None
             /\ users' = users /\ session' = session
    /\ clients'[c].pc = "validate_find" /\ clients[c].pc = "idle"
          => WellSigned(clients'[c].req.access_token, now)
C13_TokenFailureUnauthorized == [][\A c \in Clients : C13_ValidateStep(c)]_vars
\* The access token of the last Login has just been refused, its time to
\* live elapsed, its user active.
C13_Witness ==
    /\ Replied("ValidateToken") /\ Exchange.resp.kind = "Unauthorized"
    /\ IsSome(wallet) /\ Exchange.req.access_token = Unwrap(wallet).access_token
    /\ C13_Reason(Exchange.req.access_token) = "expired"
    /\ now > Unwrap(wallet).access_token[1].iat + AccessTtl
    /\ Unwrap(SubjectOf(Exchange.req.access_token)).is_active
\* A token with a signature that does not match, and a string that is no
\* token, have just been refused.
C13_WitnessSignature ==
    /\ Replied("ValidateToken") /\ Exchange.resp.kind = "Unauthorized"
    /\ Len(Exchange.req.access_token) = 2
    /\ C13_Reason(Exchange.req.access_token) = "signature"
C13_WitnessMalformed ==
    /\ Replied("ValidateToken") /\ Exchange.resp.kind = "Unauthorized"
    /\ C13_Reason(Exchange.req.access_token) = "malformed"

\* C14: in every step, every row of the users table stays where it is with
\* its email, and its password hash changes only in the step in which a
\* ResetPassword for that user replies success, to the hash that
\* ResetPassword computed; SignUp, Login, ForgotPassword, ValidateToken and
\* a ResetPassword that fails leave every stored hash as it was.
C14_HashChanged(i) == users'[i].password_hash # users[i].password_hash
C14_Frame ==
    /\ Len(users') >= Len(users)
    /\ \A i \in 1..Len(users) :
          /\ users'[i].email = users[i].email
          /\ C14_HashChanged(i)
                => \E c \in Clients :
                      /\ RepliesTo(c, "reset_update")
                      /\ Unwrap(out').req.op = "ResetPassword"
                      /\ Unwrap(out').resp.kind = "Ok"
                      /\ clients[c].loc.user_id = i
                      /\ users'[i].password_hash = clients[c].loc.hashed_password
    /\ out' # None /\ (Unwrap(out').req.op # "ResetPassword" \/ Unwrap(out').resp.kind # "Ok")
          => \A i \in 1..Len(users) : ~C14_HashChanged(i)
C15_Entry(c) == session'[RefreshKey(clients[c].loc.user.id)]
C15_TtlStep(c) ==
    /\ clients[c].pc = "idle" /\ clients'[c].pc = "login_store"
          => /\ clients'[c].loc.refresh_exp = clients'[c].loc.refresh_token[1].exp
             /\ clients'[c].loc.ttl = clients'[c].loc.refresh_exp - now
             /\ clients'[c].loc.ttl >= 0
             /\ clients'[c].loc.ttl <= RefreshTtl
    /\ clients[c].pc = "login_store" /\ clients'[c].pc = "login_update"
          => /\ RefreshKey(clients[c].loc.user.id) \in DOMAIN session'
             /\ C15_Entry(c).value = clients[c].loc.refresh_token
             /\ C15_Entry(c).expires_at = now + clients[c].loc.ttl
C15_Delay(c) == now - clients[c].loc.refresh_token[1].iat
C15_RefreshTtl ==
    [][\A c \in Clients :
          /\ C15_TtlStep(c)
          /\ clients[c].pc = "login_store" /\ clients'[c].pc = "login_update"
                => /\ C15_Delay(c) >= 0
                   /\ C15_Entry(c).expires_at
                         = clients[c].loc.refresh_token[1].exp + C15_Delay(c)]_vars
\* The claim as stated: in addition, the entry does not outlive the token.
C15_EntryNotOutlivingToken ==
    [][\A c \in Clients :
          /\ C15_TtlStep(c)
          /\ clients[c].pc = "login_store" /\ clients'[c].pc = "login_update"
                => C15_Entry(c).expires_at <= clients[c].loc.refresh_token[1].exp]_vars
\* A Login that ran after the clock had advanced has just replied; the
\* entry of its refresh token expires when the token does.
C15_Witness ==
    /\ Replied("Login") /\ Exchange.resp.kind = "Ok"
    /\ Unwrap(Exchange.resp.body).refresh_token[1].iat > 0
    /\ \E k \in DOMAIN session :
          /\ session[k].value = Unwrap(Exchange.resp.body).refresh_token
          /\ session[k].expires_at = session[k].value[1].exp
\* The clock advanced while Login was suspended at store_refresh_token: the
\* entry expires after the token.
C15_WitnessDelayed ==
    \E k \in DOMAIN session :
        /\ k[1] = "refresh"
        /\ session[k].expires_at > session[k].value[1].exp
        /\ now < session[k].expires_at

\* C16: no step of ResetPassword changes the Session Store, and a reset
\* entry leaves it only when the clock reaches its expiry; a ResetPassword
\* that presents an issued token less than 30 minutes after it was stored
\* is not refused, and, update_password not failing, replies success with
\* the user's hash overwritten, however many callers present the token.
C16_Fresh(token, t) == \E i \in issued : i.token = token /\ t - i.at < 1
C16_ResetStep(c) ==
    /\ clients[c].pc = "idle" /\ clients'[c].pc = "reset_update" => session' = session
    /\ RepliesTo(c, "idle") /\ Unwrap(out').req.op = "ResetPassword"
          => /\ session' = session
             /\ ValidRequest(Unwrap(out').req) /\ fault' = "none"
                   => ~C16_Fresh(Unwrap(out').req.token, now)
    /\ RepliesTo(c, "reset_update")
          => /\ session' = session
             /\ fault' = "none"
                   => /\ Unwrap(out').resp.kind = "Ok"
                      /\ users'[clients[c].loc.user_id].password_hash
                            = clients[c].loc.hashed_password
                      /\ VerifyPassword(users'[clients[c].loc.user_id].password_hash,
                                        clients[c].req.new_password)
C16_OnlyExpiryInvalidates ==
    \A k \in DOMAIN session :
        k[1] = "reset"
          => IF k \in DOMAIN session'
             THEN session'[k] = session[k]
             ELSE now' # now /\ now' >= session[k].expires_at
C16_ResetTokenReplay ==
    [][C16_OnlyExpiryInvalidates /\ \A c \in Clients : C16_ResetStep(c)]_vars
\* One caller's ResetPassword has just succeeded while the other caller,
\* who presented the same token, is suspended at update_password; the reset
\* entry is still in the Session Store.
C16_Witness ==
    /\ Replied("ResetPassword") /\ Exchange.resp.kind = "Ok"
    /\ ResetKey(Exchange.req.token) \in DOMAIN session
    /\ \E d \in Clients \ {Exchange.client} :
          /\ clients[d].pc = "reset_update"
          /\ clients[d].req.token = Exchange.req.token
          /\ clients[d].req.new_password # Exchange.req.new_password

\* C17: no step of ResetPassword changes a refresh entry of the Session
\* Store; and ValidateToken accepts the access token and the refresh token
\* of the last Login, as long as the token verifies and its user is active,
\* whatever the Session Store holds and whatever password resets took place
\* since the Login.
C17_ResetActs(c) ==
    \/ clients[c].pc = "idle" /\ clients'[c].pc = "reset_update"
    \/ RepliesTo(c, "idle") /\ Unwrap(out').req.op = "ResetPassword"
    \/ RepliesTo(c, "reset_update")
C17_RefreshEntries(s) == {k \in DOMAIN s : k[1] = "refresh"}
C17_Step(c) ==
    /\ C17_ResetActs(c)
          => /\ C17_RefreshEntries(session') = C17_RefreshEntries(session)
             /\ \A k \in C17_RefreshEntries(session) : session'[k] = session[k]
    /\ RepliesTo(c, "validate_find") /\ fault' = "none" /\ IsSome(wallet)
            /\ clients[c].req.access_token
                  \in {Unwrap(wallet).access_token, Unwrap(wallet).refresh_token}
            /\ WellSigned(clients[c].req.access_token, now)
            /\ IsSome(SubjectOf(clients[c].req.access_token))
            /\ Unwrap(SubjectOf(clients[c].req.access_token)).is_active
          => /\ Unwrap(out').resp.kind = "Ok"
             /\ Unwrap(Unwrap(out').resp.body).valid
C17_ResetKeepsTokens == [][\A c \in Clients : C17_Step(c)]_vars
\* ValidateToken has just accepted a token of a Login that took place before
\* the reset token was issued with which the password was reset since.
C17_Witness ==
    /\ Replied("ValidateToken") /\ Exchange.resp.kind = "Ok"
    /\ IsSome(wallet)
    /\ Exchange.req.access_token
          \in {Unwrap(wallet).access_token, Unwrap(wallet).refresh_token}
    /\ \E i \in issued : Exchange.req.access_token[1].iat < i.at
    /\ CredentialsMatch(users, LoginRequest(PrimaryEmail, "pw2"))
\* ValidateToken has just accepted the refresh token of the last Login,
\* while the Session Store holds no refresh entry.
C17_WitnessNoEntry ==
    /\ Replied("ValidateToken") /\ Exchange.resp.kind = "Ok"
    /\ IsSome(wallet) /\ Exchange.req.access_token = Unwrap(wallet).refresh_token
    /\ C17_RefreshEntries(session) = {}

\* C18: a ValidateToken with the refresh token of the last Login, the token
\* still verifying and its user active when ValidateToken replies, with no
\* store failure, replies as it does for the access token: valid = true,
\* the user of the Login, "Token is valid"; also when the access token of
\* that Login has expired.
C18_Accepted ==
    [kind |-> "Ok", message |-> "",
     body |-> Some([valid |-> TRUE, user |-> Some(Unwrap(wallet).user),
                    message |-> "Token is valid"])]
C18_RefreshTokenAccepted ==
    Replied("ValidateToken") /\ fault = "none" /\ IsSome(wallet)
        /\ Exchange.req.access_token = Unwrap(wallet).refresh_token
        /\ WellSigned(Exchange.req.access_token, now)
        /\ IsSome(SubjectOf(Exchange.req.access_token))
        /\ Unwrap(SubjectOf(Exchange.req.access_token)).is_active
      => Exchange.resp = C18_Accepted
\* ValidateToken has just accepted the refresh token of the last Login, the
\* access token of that Login expired.
C18_Witness ==
    /\ Replied("ValidateToken") /\ IsSome(wallet)
    /\ Exchange.resp = C18_Accepted
    /\ Exchange.req.access_token = Unwrap(wallet).refresh_token
    /\ Unwrap(wallet).refresh_token # Unwrap(wallet).access_token
    /\ ~WellSigned(Unwrap(wallet).access_token, now)

\* C19: a Login that replies Unauthorized does so in its first step and
\* leaves the User Store and the Session Store as they were; a refresh
\* entry is written only by store_refresh_token of a Login, and a
\* last-login timestamp only by the step after it, update_last_login of
\* that Login.
C19_LoginStep(c) ==
    /\ RepliesTo(c, "idle") /\ Unwrap(out').req.op = "Login"
            /\ Unwrap(out').resp.kind = "Unauthorized"
          => users' = users /\ session' = session
    /\ RepliesTo(c, "login_store") \/ RepliesTo(c, "login_update")
          => Unwrap(out').resp.kind # "Unauthorized"
    /\ clients'[c].pc = "login_update" /\ clients[c].pc # "login_update"
          => /\ clients[c].pc = "login_store"
             /\ RefreshKey(clients[c].loc.user.id) \in DOMAIN session'
             /\ session'[RefreshKey(clients[c].loc.user.id)].value
                   = clients[c].loc.refresh_token
C19_Writes ==
    /\ \A i \in 1..Len(users) :
          users'[i].last_login # users[i].last_login
            => \E c \in Clients :
                  /\ RepliesTo(c, "login_update")
                  /\ Unwrap(out').resp.kind = "Ok"
                  /\ clients[c].loc.user.id = i
    /\ \A k \in DOMAIN session' :
          k[1] = "refresh" /\ (k \notin DOMAIN session \/ session'[k] # session[k])
            => \E c \in Clients :
                  /\ clients[c].pc = "login_store" /\ clients'[c].pc = "login_update"
                  /\ k = RefreshKey(clients[c].loc.user.id)
C19_UnauthorizedNoWrite == [][C19_Writes /\ \A c \in Clients : C19_LoginStep(c)]_vars
\* A wrong password for the registered account has just been refused: the
\* account has no last-login timestamp and there is no refresh entry.
C19_Witness ==
    /\ Replied("Login") /\ Exchange.resp.kind = "Unauthorized"
    /\ IsSome(FindByEmail(users, Exchange.req.email))
    /\ Unwrap(FindByEmail(users, Exchange.req.email)).last_login = None
    /\ \A k \in DOMAIN session : k[1] # "refresh"
    /\ now > 0
\* update_last_login has just written the timestamp, the refresh token of
\* the reply registered.
C19_WitnessLastLogin ==
    /\ Replied("Login") /\ Exchange.resp.kind = "Ok"
    /\ Unwrap(FindByEmail(users, Exchange.req.email)).last_login = Some(now)
    /\ \E k \in DOMAIN session :
          session[k].value = Unwrap(Exchange.resp.body).refresh_token

\* C20: the Session Store holds at most one refresh entry per user. Each
\* registration of a Login writes refresh:<user_id>, replacing whatever
\* was there and touching no other key, so the entry holds the token of
\* the registration written last, whichever Login replies last; the token
\* an overwritten Login returns is no longer in the store.
C20_RefreshKeys(ss) == { k \in DOMAIN ss : k[1] = "refresh" }
C20_Registers(c) ==
    clients[c].pc = "login_store" /\ clients'[c].pc = "login_update"
C20_Step ==
    /\ \A c \in Clients :
          C20_Registers(c)
            => LET l == clients[c].loc
               IN  /\ RefreshKey(l.user.id) \in DOMAIN session'
                   /\ session'[RefreshKey(l.user.id)].value = l.refresh_token
                   /\ \A k \in DOMAIN session' \ {RefreshKey(l.user.id)} :
                         k \in DOMAIN session /\ session'[k] = session[k]
                   /\ DOMAIN session \subseteq DOMAIN session'
    /\ (\A c \in Clients : ~C20_Registers(c))
          => \A k \in C20_RefreshKeys(session') :
                k \in DOMAIN session /\ session'[k].value = session[k].value
C20_Unique ==
    /\ Cardinality(C20_RefreshKeys(session)) <= Len(users)
    /\ \A k \in C20_RefreshKeys(session) :
          /\ k = RefreshKey(Unwrap(UuidParse(session[k].value[1].sub)))
          /\ \A j \in C20_RefreshKeys(session) :
                session[j].value[1].sub = session[k].value[1].sub => j = k
C20_OneRefreshEntry == [][C20_Step /\ C20_Unique']_vars
\* Two Logins of one user interleaved: the one that was found first replies
\* last, so the token it has just returned, still unexpired, is not the
\* one under the user's key, which holds the later registration.
C20_Witness ==
    /\ Replied("Login") /\ Exchange.resp.kind = "Ok" /\ IsSome(wallet)
    /\ Unwrap(Exchange.resp.body).refresh_token = Unwrap(wallet).refresh_token
    /\ WellSigned(Unwrap(wallet).refresh_token, now)
    /\ C20_RefreshKeys(session) = {RefreshKey(Unwrap(UuidParse(Unwrap(wallet).user.id)))}
    /\ session[RefreshKey(Unwrap(UuidParse(Unwrap(wallet).user.id)))].value
          # Unwrap(wallet).refresh_token
    /\ \A k \in DOMAIN session : session[k].value # Unwrap(wallet).refresh_token
====
